---- MODULE Spec2Model ----
(***************************************************************************)
(* A model of the beanstalkc client: the command table (command.rs), the   *)
(* transport round trip (request.rs), the response accessors (response.rs),*)
(* the client dispatch (beanstalkc.rs) and the job handle (job.rs).        *)
(*                                                                         *)
(* The wire is a sequence of symbols.  A symbol is a string: "SP", "CR",   *)
(* "LF", a decimal digit, a payload byte ("a", "b", "p", ..., "NUL", and   *)
(* "xFF" for a byte that is not valid UTF-8), or a whole protocol word     *)
(* (a status keyword such as "RESERVED", a command keyword such as         *)
(* "delete", the tube name "jobs").  Protocol words only occur in status   *)
(* and command lines; every symbol of a body is one byte.                  *)
(***************************************************************************)
EXTENDS Integers, Sequences, FiniteSets

VARIABLES stream, inbuf, job, pc, last

vars == <<stream, inbuf, job, pc, last>>

\* ------------------------------------------------------------------ bounds
\* A reply is added to a connection that still holds unread symbols only
\* while the unread symbols stay at most this many.
MaxBacklog == 4
\* Most bytes by which one read() of a reply body may fall short.
MaxShort == 3

\* ------------------------------------------------------------ config.rs
\* The ^ of Rust on integers: bitwise exclusive or.
RECURSIVE BitXor(_, _)
BitXor(a, b) ==
    IF a = 0 /\ b = 0 THEN 0
    ELSE (((a % 2) + (b % 2)) % 2) + 2 * BitXor(a \div 2, b \div 2)

\* pub const DEFAULT_JOB_PRIORITY: u32 = 2 ^ 31;
DEFAULT_JOB_PRIORITY == BitXor(2, 31)
DEFAULT_JOB_DELAY == 0
DEFAULT_JOB_TTR == 120

\* ------------------------------------------------------------- symbols
Digits == <<"0", "1", "2", "3", "4", "5", "6", "7", "8", "9">>

IsDigit(c) == \E i \in 1..10 : Digits[i] = c

DigitVal(c) == (CHOOSE i \in 1..10 : Digits[i] = c) - 1

IsWhitespace(c) == c \in {"SP", "CR", "LF"}

IsUtf8(s) == \A i \in 1..Len(s) : s[i] # "xFF"

Min(a, b) == IF a < b THEN a ELSE b

\* The element of a one-element set: {F(x) : x \in {e}} computes e once.
The(S) == CHOOSE x \in S : TRUE

Max(a, b) == IF a > b THEN a ELSE b

\* u64::to_string / u32::to_string: the decimal digits of n.
RECURSIVE to_string(_)
to_string(n) ==
    IF n < 10 THEN <<Digits[n + 1]>>
    ELSE to_string(n \div 10) \o <<Digits[(n % 10) + 1]>>

\* str::parse::<u64>() and friends: -1 stands for a ParseIntError.  The
\* numbers of this model have at most four digits, so none overflows.
RECURSIVE DigitsValue(_, _)
DigitsValue(tok, acc) ==
    IF tok = <<>> THEN acc
    ELSE DigitsValue(Tail(tok), acc * 10 + DigitVal(Head(tok)))

Parse(tok) ==
    LET digits == IF tok # <<>> /\ Head(tok) = "+" THEN Tail(tok) ELSE tok IN
    IF digits # <<>> /\ \A i \in 1..Len(digits) : IsDigit(digits[i])
    THEN DigitsValue(digits, 0)
    ELSE -1

\* str::split_whitespace: the maximal runs of non-whitespace symbols.
RECURSIVE SplitWs(_, _, _)
SplitWs(s, cur, acc) ==
    IF s = <<>> THEN (IF cur = <<>> THEN acc ELSE Append(acc, cur))
    ELSE IF IsWhitespace(Head(s))
         THEN SplitWs(Tail(s), <<>>, IF cur = <<>> THEN acc ELSE Append(acc, cur))
         ELSE SplitWs(Tail(s), Append(cur, Head(s)), acc)

split_whitespace(s) == SplitWs(s, <<>>, <<>>)

\* ------------------------------------------------------------ command.rs
Statuses ==
    {"Ok", "Found", "NotFound", "Reserved", "DeadlineSoon", "TimedOut",
     "Deleted", "Released", "Buried", "Kicked", "Using", "Watching",
     "Touched", "Inserted", "NotIgnored", "OutOfMemory", "InternalError",
     "Draining", "BadFormat", "UnknownCommand", "ExpectedCRLF", "JobTooBig",
     "Paused"}

StatusKeyword ==
    [OK |-> "Ok", FOUND |-> "Found", NOT_FOUND |-> "NotFound",
     RESERVED |-> "Reserved", DEADLINE_SOON |-> "DeadlineSoon",
     TIMED_OUT |-> "TimedOut", DELETED |-> "Deleted", RELEASED |-> "Released",
     BURIED |-> "Buried", KICKED |-> "Kicked", USING |-> "Using",
     WATCHING |-> "Watching", TOUCHED |-> "Touched", INSERTED |-> "Inserted",
     NOT_IGNORED |-> "NotIgnored", OUT_OF_MEMORY |-> "OutOfMemory",
     INTERNAL_ERROR |-> "InternalError", DRAINING |-> "Draining",
     BAD_FORMAT |-> "BadFormat", UNKNOWN_COMMAND |-> "UnknownCommand",
     EXPECTED_CRLF |-> "ExpectedCRLF", JOB_TOO_BIG |-> "JobTooBig",
     PAUSED |-> "Paused"]

\* impl FromStr for Status: "None" stands for Err(CommandFailed(s)).
Status_from_str(tok) ==
    IF Len(tok) = 1 /\ tok[1] \in DOMAIN StatusKeyword
    THEN StatusKeyword[tok[1]]
    ELSE "None"

\* Command::new
Command(kind, args, hasBody, body, ok, err) ==
    [kind |-> kind, args |-> args, hasBody |-> hasBody, body |-> body,
     expected_ok_status |-> ok, expected_error_status |-> err]

RECURSIVE JoinSpace(_)
JoinSpace(args) ==
    IF Len(args) = 1 THEN args[1]
    ELSE args[1] \o <<"SP">> \o JoinSpace(Tail(args))

\* String::from_utf8_lossy: a byte that is not UTF-8 becomes U+FFFD.
RECURSIVE from_utf8_lossy(_)
from_utf8_lossy(b) ==
    IF b = <<>> THEN <<>>
    ELSE (IF Head(b) = "xFF" THEN <<"xEF", "xBF", "xBD">> ELSE <<Head(b)>>)
         \o from_utf8_lossy(Tail(b))

\* Command::build joining the arguments without the space between them.
build_without_separator(cmd) ==
    LET RECURSIVE Glue(_)
        Glue(args) == IF args = <<>> THEN <<>> ELSE Head(args) \o Glue(Tail(args))
        c1 == <<cmd.kind>>
        c2 == IF cmd.args # <<>> THEN c1 \o <<"SP">> \o Glue(cmd.args) ELSE c1
        c3 == IF cmd.hasBody
              THEN c2 \o <<"SP">> \o to_string(Len(cmd.body)) \o <<"CR", "LF">>
                      \o from_utf8_lossy(cmd.body)
              ELSE c2
    IN  c3 \o <<"CR", "LF">>

\* Command::build
build(cmd) ==
    LET c1 == <<cmd.kind>>
        c2 == IF cmd.args # <<>> THEN c1 \o <<"SP">> \o JoinSpace(cmd.args) ELSE c1
        c3 == IF cmd.hasBody
              THEN c2 \o <<"SP">> \o to_string(Len(cmd.body)) \o <<"CR", "LF">>
                      \o from_utf8_lossy(cmd.body)
              ELSE c2
    IN  c3 \o <<"CR", "LF">>

put(body, priority, delay, ttr) ==
    Command("put", <<to_string(priority), to_string(delay), to_string(ttr)>>,
            TRUE, body, {"Inserted"}, {"JobTooBig", "Buried", "Draining"})

\* reserve choosing its keyword by the value of the timeout: 0 seconds
\* counts as no timeout.
reserve_zero_is_none(hasTimeout, timeout) ==
    Command(IF hasTimeout /\ timeout > 0 THEN "reserve-with-timeout" ELSE "reserve",
            IF hasTimeout /\ timeout > 0 THEN <<to_string(timeout)>> ELSE <<>>,
            FALSE, <<>>, {"Reserved"}, {"TimedOut", "DeadlineSoon"})

reserve(hasTimeout, timeout) ==
    Command(IF hasTimeout THEN "reserve-with-timeout" ELSE "reserve",
            IF hasTimeout THEN <<to_string(timeout)>> ELSE <<>>,
            FALSE, <<>>, {"Reserved"}, {"TimedOut", "DeadlineSoon"})

kick(bound) ==
    Command("kick", <<to_string(bound)>>, FALSE, <<>>, {"Kicked"}, {})

kick_job(job_id) ==
    Command("kick-job", <<to_string(job_id)>>, FALSE, <<>>, {"Kicked"}, {"NotFound"})

peek(kind, args) ==
    Command(kind, args, FALSE, <<>>, {"Found"}, {"NotFound"})

peek_job(job_id) == peek("peek", <<to_string(job_id)>>)

peek_ready == peek("peek-ready", <<>>)

peek_delayed == peek("peek-delayed", <<>>)

peek_buried == peek("peek-buried", <<>>)

tubes == Command("list-tubes", <<>>, FALSE, <<>>, {"Ok"}, {})

using == Command("list-tube-used", <<>>, FALSE, <<>>, {"Using"}, {})

use_tube(name) == Command("use", <<name>>, FALSE, <<>>, {"Using"}, {})

watching == Command("list-tubes-watched", <<>>, FALSE, <<>>, {"Ok"}, {})

watch(name) == Command("watch", <<name>>, FALSE, <<>>, {"Watching"}, {})

\* ignore without NotIgnored in its error statuses.
ignore_without_error_status(name) ==
    Command("ignore", <<name>>, FALSE, <<>>, {"Watching"}, {})

ignore(name) ==
    Command("ignore", <<name>>, FALSE, <<>>, {"Watching"}, {"NotIgnored"})

stats == Command("stats", <<>>, FALSE, <<>>, {"Ok"}, {})

stats_tube(name) ==
    Command("stats-tube", <<name>>, FALSE, <<>>, {"Ok"}, {"NotFound"})

pause_tube(name, delay) ==
    Command("pause-tube", <<name, to_string(delay)>>, FALSE, <<>>,
            {"Paused"}, {"NotFound"})

delete(job_id) ==
    Command("delete", <<to_string(job_id)>>, FALSE, <<>>, {"Deleted"}, {"NotFound"})

\* release without the job id among its arguments.
release_without_job_id(job_id, priority, delay) ==
    Command("release", <<to_string(priority), to_string(delay)>>,
            FALSE, <<>>, {"Released", "Buried"}, {"NotFound"})

\* release taking BURIED for a failure.
release_buried_is_error(job_id, priority, delay) ==
    Command("release", <<to_string(job_id), to_string(priority), to_string(delay)>>,
            FALSE, <<>>, {"Released"}, {"NotFound", "Buried"})

release(job_id, priority, delay) ==
    Command("release", <<to_string(job_id), to_string(priority), to_string(delay)>>,
            FALSE, <<>>, {"Released", "Buried"}, {"NotFound"})

\* bury listing BURIED as a failure as well as a success.
bury_overlapping(job_id, priority) ==
    Command("bury", <<to_string(job_id), to_string(priority)>>, FALSE, <<>>,
            {"Buried"}, {"NotFound", "Buried"})

bury(job_id, priority) ==
    Command("bury", <<to_string(job_id), to_string(priority)>>, FALSE, <<>>,
            {"Buried"}, {"NotFound"})

\* touch expecting OK where the server answers TOUCHED.
touch_expecting_ok(job_id) ==
    Command("touch", <<to_string(job_id)>>, FALSE, <<>>, {"Ok"}, {"NotFound"})

touch(job_id) ==
    Command("touch", <<to_string(job_id)>>, FALSE, <<>>, {"Touched"}, {"NotFound"})

stats_job(job_id) ==
    Command("stats-job", <<to_string(job_id)>>, FALSE, <<>>, {"Ok"}, {"NotFound"})

quit == Command("quit", <<>>, FALSE, <<>>, {}, {})

\* ------------------------------------------------------------ request.rs
\* struct Response; Response::default() is status Ok, no params, no body.
Response(status, params, hasBody, body) ==
    [status |-> status, params |-> params, hasBody |-> hasBody, body |-> body]

NoResponse == Response("None", <<>>, FALSE, <<>>)

\* BufRead::read_line: the symbols up to and including the first LF, or all
\* of the stream when the peer closed it before sending one.
ReadLine(avail) ==
    IF \E i \in 1..Len(avail) : avail[i] = "LF"
    THEN SubSeq(avail, 1, CHOOSE i \in 1..Len(avail) :
                            /\ avail[i] = "LF"
                            /\ \A j \in 1..(i - 1) : avail[j] # "LF")
    ELSE avail

\* The Response index (0 for Ok, 1 for Reserved) whose parameter announces
\* the body length; -1 for a status that request.rs reads no body for.
BodyLenIndex(status) ==
    CASE status = "Ok" -> 0
      [] status = "Reserved" -> 1
      [] OTHER -> -1

\* Read::read into a buffer of `want` bytes: it returns at least one byte
\* when one is there, and may return fewer than asked for.
ReadCount(want, available, short) ==
    Min(available, Max(Min(1, want), want - short))

RECURSIVE Zeros(_)
Zeros(n) == IF n <= 0 THEN <<>> ELSE <<"NUL">> \o Zeros(n - 1)

SendResult(res, detail, resp, rest) ==
    [res |-> res, detail |-> detail, resp |-> resp, rest |-> rest]

\* Request::send keeping of the tokens after the keyword only the first.
Request_decode_first_param(line_parts, rest1, io, short) ==
    IF line_parts = <<>>
    THEN SendResult("UnexpectedResponse", "empty response", NoResponse, rest1)
    ELSE IF Status_from_str(line_parts[1]) = "None"
    THEN SendResult("CommandFailed", "unknown status", NoResponse, rest1)
    ELSE SendResult("Ok", "",
                    Response(Status_from_str(line_parts[1]),
                             SubSeq(line_parts, 2, Min(2, Len(line_parts))),
                             FALSE, <<>>),
                    rest1)

\* Request::send from line 50 on: the status line is split, the status and
\* the byte count are parsed, the body is read.
Request_decode(line_parts, rest1, io, short) ==
    IF line_parts = <<>>
    THEN SendResult("UnexpectedResponse", "empty response", NoResponse, rest1)
    ELSE
    LET status == Status_from_str(line_parts[1])
        params == Tail(line_parts)
        idx == BodyLenIndex(Status_from_str(line_parts[1]))
    IN
    IF status = "None"
    THEN SendResult("CommandFailed", "unknown status", NoResponse, rest1)
    ELSE IF idx < 0
    THEN SendResult("Ok", "", Response(status, params, FALSE, <<>>), rest1)
    ELSE IF Len(params) < idx + 1
    THEN SendResult("Panic", "index out of bounds", NoResponse, rest1)
    ELSE IF Parse(params[idx + 1]) < 0
    THEN SendResult("UnexpectedResponse", "ParseIntError", NoResponse, rest1)
    ELSE IF io = "read_err"
    THEN SendResult("ConnectionError", "read", NoResponse, rest1)
    ELSE
    The({LET tmp == SubSeq(rest1, 1, got) \o Zeros(body_byte_count + 2 - got)
             body == SubSeq(tmp, 1, body_byte_count)
             rest2 == SubSeq(rest1, got + 1, Len(rest1))
         IN  IF ~IsUtf8(body)
             THEN SendResult("UnexpectedResponse", "FromUtf8Error", NoResponse, rest2)
             ELSE SendResult("Ok", "", Response(status, params, TRUE, body), rest2) :
         body_byte_count \in {Parse(params[idx + 1])},
         got \in {ReadCount(Parse(params[idx + 1]) + 2, Len(rest1), short)}})

\* Request::send without the `line.trim().is_empty()` return: an empty line
\* goes on to Status::from_str(""), which is no status keyword.
Request_send_without_empty_check(message, avail, io, short) ==
    IF io \in {"write_err", "flush_err"}
    THEN SendResult("Panic", io, NoResponse, avail)
    ELSE
    The({IF split_whitespace(IF IsUtf8(raw) THEN raw ELSE <<>>) = <<>>
         THEN SendResult("CommandFailed", "unknown status", NoResponse,
                         SubSeq(avail, Len(raw) + 1, Len(avail)))
         ELSE Request_decode(split_whitespace(IF IsUtf8(raw) THEN raw ELSE <<>>),
                             SubSeq(avail, Len(raw) + 1, Len(avail)), io, short) :
         raw \in {IF io = "read_line_err" THEN <<>> ELSE ReadLine(avail)}})

\* Request::send. `avail` is what the connection delivers to this round
\* trip, `io` the socket call that fails ("ok" for none), `short` the number
\* of bytes by which the body read falls short.  The result of read_line is
\* dropped: when it fails, or when the line is not UTF-8, `line` stays empty.
Request_send(message, avail, io, short) ==
    IF io \in {"write_err", "flush_err"}
    THEN SendResult("Panic", io, NoResponse, avail)
    ELSE
    The({Request_decode(split_whitespace(IF IsUtf8(raw) THEN raw ELSE <<>>),
                        SubSeq(avail, Len(raw) + 1, Len(avail)), io, short) :
         raw \in {IF io = "read_line_err" THEN <<>> ELSE ReadLine(avail)}})

\* ----------------------------------------------------------- response.rs
\* get_param handing out the last parameter for an index past the end.
get_param_clamped(resp, index) ==
    IF resp.params # <<>>
    THEN [ok |-> TRUE, value |-> resp.params[Min(index + 1, Len(resp.params))]]
    ELSE [ok |-> FALSE, value |-> <<>>]

\* Response::get_param: -1 in `ok` position is Err(UnexpectedResponse).
get_param(resp, index) ==
    IF index + 1 <= Len(resp.params)
    THEN [ok |-> TRUE, value |-> resp.params[index + 1]]
    ELSE [ok |-> FALSE, value |-> <<>>]

\* Response::get_int_param: the u64 at `index`, or -1 for UnexpectedResponse
\* (parameter missing, or ParseIntError).
get_int_param(resp, index) ==
    IF get_param(resp, index).ok THEN Parse(get_param(resp, index).value) ELSE -1

\* Response::job_id
job_id(resp) == get_int_param(resp, 0)

\* str::split('\n') of a body into its lines.
RECURSIVE SplitLines(_, _, _)
SplitLines(s, cur, acc) ==
    IF s = <<>> THEN (IF cur = <<>> THEN acc ELSE Append(acc, cur))
    ELSE IF Head(s) = "LF"
         THEN SplitLines(Tail(s), <<>>, Append(acc, cur))
         ELSE SplitLines(Tail(s), Append(cur, Head(s)), acc)

\* One `key: value` line of a flat YAML mapping: the position of its ": ".
ColonAt(l) ==
    IF \E i \in 2..(Len(l) - 2) : l[i] = ":" /\ l[i + 1] = "SP"
    THEN CHOOSE i \in 2..(Len(l) - 2) :
            /\ l[i] = ":" /\ l[i + 1] = "SP"
            /\ \A j \in 2..(i - 1) : ~(l[j] = ":" /\ l[j + 1] = "SP")
    ELSE 0

\* serde_yaml::from_str::<HashMap<String, String>>(b).unwrap_or_default():
\* the set of <<key, value>> pairs of a body made of `key: value` lines (the
\* bodies of this model repeat no key), and the empty map for any other body.
MapOfLines(ls) ==
    IF ls # <<>> /\ \A i \in 1..Len(ls) : ColonAt(ls[i]) > 0
    THEN {<<SubSeq(ls[i], 1, ColonAt(ls[i]) - 1),
            SubSeq(ls[i], ColonAt(ls[i]) + 2, Len(ls[i]))>> : i \in 1..Len(ls)}
    ELSE {}

\* A map body read only when its last line is ended.
YamlMap_terminated(b) ==
    IF b # <<>> /\ b[Len(b)] = "LF"
    THEN The({MapOfLines(ls) : ls \in {SplitLines(b, <<>>, <<>>)}})
    ELSE {}

YamlMap(b) == The({MapOfLines(ls) : ls \in {SplitLines(b, <<>>, <<>>)}})

\* One `- value` line of a YAML sequence.
IsItem(l) == Len(l) > 2 /\ l[1] = "-" /\ l[2] = "SP"

\* The items of a list body, last line first.
VecOfLines_reversed(ls) ==
    IF ls # <<>> /\ \A i \in 1..Len(ls) : IsItem(ls[i])
    THEN [i \in 1..Len(ls) |-> SubSeq(ls[Len(ls) + 1 - i], 3, Len(ls[Len(ls) + 1 - i]))]
    ELSE <<>>

\* The items of a body made of `- value` lines, and the empty list for any
\* other body.
VecOfLines(ls) ==
    IF ls # <<>> /\ \A i \in 1..Len(ls) : IsItem(ls[i])
    THEN [i \in 1..Len(ls) |-> SubSeq(ls[i], 3, Len(ls[i]))]
    ELSE <<>>

\* serde_yaml::from_str::<Vec<String>>(b).unwrap_or_default()
YamlVec(b) == The({VecOfLines(ls) : ls \in {SplitLines(b, <<>>, <<>>)}})

\* Response::body_as_vec: ok is FALSE for a Utf8Error.
body_as_vec(resp) ==
    IF ~resp.hasBody THEN [ok |-> TRUE, value |-> <<>>]
    ELSE IF ~IsUtf8(resp.body) THEN [ok |-> FALSE, value |-> <<>>]
    ELSE [ok |-> TRUE, value |-> YamlVec(resp.body)]

\* body_as_map taking a missing body for an error.
body_as_map_requires_body(resp) ==
    IF ~resp.hasBody \/ ~IsUtf8(resp.body) THEN [ok |-> FALSE, value |-> {}]
    ELSE [ok |-> TRUE, value |-> YamlMap(resp.body)]

\* Response::body_as_map: ok is FALSE for a Utf8Error.
body_as_map(resp) ==
    IF ~resp.hasBody THEN [ok |-> TRUE, value |-> {}]
    ELSE IF ~IsUtf8(resp.body) THEN [ok |-> FALSE, value |-> {}]
    ELSE [ok |-> TRUE, value |-> YamlMap(resp.body)]

\* ------------------------------------------------- the server and the socket
Line(toks) == JoinSpace(toks) \o <<"CR", "LF">>

WithBody(toks, body) == Line(toks) \o body \o <<"CR", "LF">>

JobIds == {7}

Tubes == {<<"jobs">>}

Priorities == {1024}

\* Payloads: two ASCII bytes, nothing, and a byte that is not valid UTF-8.
Payloads == {<<"a", "b">>, <<>>, <<"xFF">>}

\* Bodies of stats replies: a priority, a priority that is no number, a map
\* with no priority, a list, and an empty body.
StatsBodies ==
    {<<"p", "r", "i", ":", "SP", "5">>, <<"p", "r", "i", ":", "SP", "a">>,
     <<"a", ":", "SP", "5">>, <<"-", "SP", "a">>, <<>>}

\* What the server may answer to one command: every status keyword alone on
\* its line; the keywords that carry a parameter with a number and with a
\* word; the three body-bearing keywords with an honest byte count, with a
\* missing one and with one that is no number; an unknown keyword, a blank
\* line, nothing at all (the peer closed the connection), a reply cut off in
\* the middle of its body, a line with one parameter more than the protocol
\* gives its keyword, and the jobs whose payload is what put wrote for a
\* body of Payloads.
Replies ==
    {Line(<<<<k>>>>) : k \in DOMAIN StatusKeyword}
    \cup {Line(<<<<k>>, p>>) :
            k \in {"INSERTED", "USING", "WATCHING", "KICKED", "BURIED"},
            p \in {<<"7">>, <<"jobs">>}}
    \cup {WithBody(<<<<k>>, <<"7">>, to_string(Len(b))>>, b) :
            k \in {"RESERVED", "FOUND"}, b \in Payloads}
    \cup {Line(<<<<k>>, <<"7">>>>) : k \in {"RESERVED", "FOUND"}}
    \cup {Line(<<<<k>>, <<"7">>, <<"jobs">>>>) : k \in {"RESERVED", "FOUND"}}
    \cup {WithBody(<<<<k>>, <<"jobs">>, <<"1">>>>, <<"a">>) : k \in {"RESERVED", "FOUND"}}
    \cup {WithBody(<<<<"OK">>, to_string(Len(b))>>, b) : b \in StatsBodies}
    \cup {Line(<<<<"OK">>, <<"jobs">>>>)}
    \cup {Line(<<<<"BOGUS">>>>), <<"CR", "LF">>, <<>>}
    \cup {Line(<<<<"RESERVED">>, <<"7">>, <<"2">>>>) \o <<"a">>}
    \cup {Line(<<<<"INSERTED">>, <<"7">>, <<"jobs">>>>)}
    \cup {WithBody(<<<<k>>, <<"7">>, to_string(Len(from_utf8_lossy(b)))>>,
                    from_utf8_lossy(b)) :
            k \in {"RESERVED", "FOUND"}, b \in Payloads}

\* Whether the round trip on `avail` gets as far as reading a body.
ReadsBody(avail) ==
    LET parts == split_whitespace(ReadLine(avail)) IN
    /\ parts # <<>>
    /\ BodyLenIndex(Status_from_str(parts[1])) >= 0
    /\ Len(parts) > BodyLenIndex(Status_from_str(parts[1])) + 1
    /\ Parse(parts[BodyLenIndex(Status_from_str(parts[1])) + 2]) >= 0

Env(reply, io, short) == [reply |-> reply, io |-> io, short |-> short]

\* The replies the server may add to what the connection still holds.
Fitting ==
    {x \in Replies : x = <<>> \/ inbuf = <<>> \/ Len(inbuf) + Len(x) <= MaxBacklog}

\* The environment of one round trip: the reply the server sends, the socket
\* call that fails, and how short the body read falls.
Envs ==
    IF stream = "None" THEN {Env(<<>>, "ok", 0)}
    ELSE
    {Env(r, "ok", 0) : r \in Fitting}
    \cup {Env(r, "ok", k) : r \in {x \in Fitting : ReadsBody(inbuf \o x)},
                            k \in 1..MaxShort}
    \cup {Env(r, "read_err", 0) : r \in {x \in Fitting : ReadsBody(inbuf \o x)}}
    \cup {Env(<<>>, f, 0) : f \in {"write_err", "flush_err", "read_line_err"}}

\* ---------------------------------------------------------- beanstalkc.rs
Sent(res, detail, decoded, rest, sent) ==
    [res |-> res, detail |-> detail, decoded |-> decoded, rest |-> rest,
     sent |-> sent]

\* Beanstalkc::send without its `else if` arm: a status of the error set is
\* reported like any other unexpected status.
Classify_without_error_arm(cmd, r, message) ==
    IF r.res # "Ok"
    THEN Sent(r.res, r.detail, NoResponse, r.rest, <<message>>)
    ELSE IF r.resp.status \in cmd.expected_ok_status
    THEN Sent("Ok", "", r.resp, r.rest, <<message>>)
    ELSE Sent("UnexpectedResponse", r.resp.status, r.resp, r.rest, <<message>>)

\* Beanstalkc::send, lines 623-632: the status against the command's sets.
\* `decoded` keeps the Response that Request::send returned, whatever its
\* classification.
Classify(cmd, r, message) ==
    IF r.res # "Ok"
    THEN Sent(r.res, r.detail, NoResponse, r.rest, <<message>>)
    ELSE IF r.resp.status \in cmd.expected_ok_status
    THEN Sent("Ok", "", r.resp, r.rest, <<message>>)
    ELSE IF r.resp.status \in cmd.expected_error_status
    THEN Sent("CommandFailed", r.resp.status, r.resp, r.rest, <<message>>)
    ELSE Sent("UnexpectedResponse", r.resp.status, r.resp, r.rest, <<message>>)

\* Beanstalkc::send without the `self.stream.is_none()` return: the request
\* is written to and read from a connection that delivers nothing.
Beanstalkc_send_unguarded(cmd, e) ==
    The({The({Classify(c, r, m) : r \in {Request_send(m, avail, e.io, e.short)}}) :
         c \in {cmd}, m \in {build(cmd)}, avail \in {inbuf \o e.reply}})

\* Beanstalkc::send
Beanstalkc_send(cmd, e) ==
    IF stream = "None"
    THEN Sent("ConnectionError", "invalid connection", NoResponse, inbuf, <<>>)
    ELSE The({The({Classify(c, r, m) : r \in {Request_send(m, avail, e.io, e.short)}}) :
              c \in {cmd}, m \in {build(cmd)}, avail \in {inbuf \o e.reply}})

\* ------------------------------------------------------------------ job.rs
NoJob == [live |-> FALSE, id |-> 0, body |-> <<>>, reserved |-> FALSE]

\* Job::new
Job_new(id, body, reserved) ==
    [live |-> TRUE, id |-> id, body |-> body, reserved |-> reserved]

\* ------------------------------------------------------- the state machine
\* No command: the operation wrote none.
NoCommand == Command("none", <<>>, FALSE, <<>>, {}, {})

\* What an accessor of a Response hands back: a string, a u64 (-1: none), a
\* map as its set of <<key, value>> pairs, a list.
Value(text, int, map, vec) == [text |-> text, int |-> int, map |-> map, vec |-> vec]

NoValue == Value(<<>>, -1, {}, <<>>)

NoLast ==
    [op |-> "none", sent |-> <<>>, res |-> "None", detail |-> "",
     decoded |-> NoResponse, pre |-> NoJob, avail |-> <<>>, connected |-> FALSE,
     priority |-> 0, ok |-> {}, err |-> {}, cmd |-> NoCommand, io |-> "ok",
     index |-> 0, value |-> NoValue, short |-> 0]

\* What the caller and the peer can observe of one operation: the commands
\* written, the result, the Response decoded, the Job before the call, what
\* the connection delivered, the status sets of the command built, the
\* command itself, the socket call that failed during the round trip and
\* how short the body read fell.
Outcome(op, cmd, s, res, detail, e) ==
    [op |-> op, sent |-> s.sent, res |-> res, detail |-> detail,
     decoded |-> s.decoded, pre |-> job, avail |-> inbuf \o e.reply,
     connected |-> stream # "None", priority |-> 0,
     ok |-> cmd.expected_ok_status, err |-> cmd.expected_error_status,
     cmd |-> cmd, io |-> IF stream = "None" THEN "ok" ELSE e.io,
     index |-> 0, value |-> NoValue, short |-> e.short]

\* Beanstalkc::new
Init ==
    /\ stream = "None"
    /\ inbuf = <<>>
    /\ job = NoJob
    /\ pc = "idle"
    /\ last = NoLast

\* What the operation makes of Beanstalkc::send's result: `ret` names the
\* accessor it applies to an Ok(resp) (and_then / map / ?).
Returned(ret, s) ==
    IF s.res # "Ok" THEN [res |-> s.res, detail |-> s.detail]
    ELSE IF ret \in {"job_id", "int_param", "reserved", "peeked"}
            /\ get_int_param(s.decoded, 0) < 0
    THEN [res |-> "UnexpectedResponse", detail |-> "param"]
    ELSE IF ret = "param" /\ ~get_param(s.decoded, 0).ok
    THEN [res |-> "UnexpectedResponse", detail |-> "param"]
    ELSE IF ret = "vec" /\ ~body_as_vec(s.decoded).ok
    THEN [res |-> "UnexpectedResponse", detail |-> "Utf8Error"]
    ELSE IF ret = "map" /\ ~body_as_map(s.decoded).ok
    THEN [res |-> "UnexpectedResponse", detail |-> "Utf8Error"]
    ELSE [res |-> "Ok", detail |-> ""]

\* The value inside the Ok the operation returns (a Job is kept in `job`).
ReturnedValue(ret, s, out) ==
    IF out.res # "Ok" THEN NoValue
    ELSE CASE ret \in {"job_id", "int_param"} ->
                Value(<<>>, get_int_param(s.decoded, 0), {}, <<>>)
           [] ret = "param" -> Value(get_param(s.decoded, 0).value, -1, {}, <<>>)
           [] ret = "vec" -> Value(<<>>, -1, {}, body_as_vec(s.decoded).value)
           [] ret = "map" -> Value(<<>>, -1, body_as_map(s.decoded).value, <<>>)
           [] OTHER -> NoValue

\* The `reserved` argument of Job::new in reserve / reserve_with_timeout.
ReserveFlag == TRUE

\* do_peek handing out its Job as a reserved one.
PeekFlag_as_reserved == TRUE

\* The `reserved` argument of Job::new in do_peek.
PeekFlag == FALSE

\* The client giving up its transport after an UnexpectedResponse.
Stream_dropped_on_unexpected(res) ==
    IF res = "UnexpectedResponse" THEN "None" ELSE stream

\* self.stream after an operation that goes through Beanstalkc::send: no
\* operation assigns it, whatever the result.
Stream_kept(res) == stream

\* One operation of the client: build the command, send it, map the result.
\* A Job borrows the client mutably, so using the client ends the Job.
ClientOp(op, cmd, ret) ==
    /\ pc = "idle"
    /\ \E e \in Envs : \E s \in {Beanstalkc_send(cmd, e)} : \E out \in {Returned(ret, s)} :
            /\ last' = [Outcome(op, cmd, s, out.res, out.detail, e)
                           EXCEPT !.value = ReturnedValue(ret, s, out)]
            /\ inbuf' = s.rest
            /\ job' = IF out.res = "Ok" /\ ret \in {"reserved", "peeked"}
                      THEN Job_new(job_id(s.decoded),
                                   IF s.decoded.hasBody THEN s.decoded.body ELSE <<>>,
                                   IF ret = "reserved" THEN ReserveFlag ELSE PeekFlag)
                      ELSE NoJob
            /\ stream' = Stream_kept(out.res)
    /\ pc' = "returned"

Delays == {10}

Ttrs == {100}

Timeouts == {0, 10}

Bounds == {100}

Beanstalkc_put_default ==
    \E b \in Payloads :
        ClientOp("put_default",
                 put(b, DEFAULT_JOB_PRIORITY, DEFAULT_JOB_DELAY, DEFAULT_JOB_TTR),
                 "job_id")

Beanstalkc_put ==
    \E b \in Payloads, p \in Priorities, d \in Delays, t \in Ttrs :
        ClientOp("put", put(b, p, d, t), "job_id")

Beanstalkc_reserve == ClientOp("reserve", reserve(FALSE, 0), "reserved")

Beanstalkc_reserve_with_timeout ==
    \E t \in Timeouts :
        ClientOp("reserve_with_timeout", reserve(TRUE, t), "reserved")

Beanstalkc_kick == \E b \in Bounds : ClientOp("kick", kick(b), "int_param")

Beanstalkc_kick_job == \E id \in JobIds : ClientOp("kick_job", kick_job(id), "unit")

\* Beanstalkc::do_peek
do_peek(op, cmd) == ClientOp(op, cmd, "peeked")

Beanstalkc_peek == \E id \in JobIds : do_peek("peek", peek_job(id))

Beanstalkc_peek_ready == do_peek("peek_ready", peek_ready)

Beanstalkc_peek_delayed == do_peek("peek_delayed", peek_delayed)

Beanstalkc_peek_buried == do_peek("peek_buried", peek_buried)

Beanstalkc_tubes == ClientOp("tubes", tubes, "vec")

Beanstalkc_using == ClientOp("using", using, "param")

Beanstalkc_use_tube == \E n \in Tubes : ClientOp("use_tube", use_tube(n), "param")

Beanstalkc_watching == ClientOp("watching", watching, "vec")

Beanstalkc_watch == \E n \in Tubes : ClientOp("watch", watch(n), "int_param")

Beanstalkc_ignore == \E n \in Tubes : ClientOp("ignore", ignore(n), "int_param")

Beanstalkc_stats == ClientOp("stats", stats, "map")

Beanstalkc_stats_tube == \E n \in Tubes : ClientOp("stats_tube", stats_tube(n), "map")

Beanstalkc_pause_tube ==
    \E n \in Tubes, d \in Delays : ClientOp("pause_tube", pause_tube(n, d), "unit")

Beanstalkc_delete == \E id \in JobIds : ClientOp("delete", delete(id), "unit")

Beanstalkc_release_default ==
    \E id \in JobIds :
        ClientOp("release_default",
                 release(id, DEFAULT_JOB_PRIORITY, DEFAULT_JOB_DELAY), "unit")

Beanstalkc_release ==
    \E id \in JobIds, p \in Priorities, d \in Delays :
        ClientOp("release", release(id, p, d), "unit")

Beanstalkc_bury_default ==
    \E id \in JobIds :
        ClientOp("bury_default", bury(id, DEFAULT_JOB_PRIORITY), "unit")

Beanstalkc_bury ==
    \E id \in JobIds, p \in Priorities : ClientOp("bury", bury(id, p), "unit")

Beanstalkc_touch == \E id \in JobIds : ClientOp("touch", touch(id), "unit")

Beanstalkc_stats_job == \E id \in JobIds : ClientOp("stats_job", stats_job(id), "map")

\* Beanstalkc::connect, on a client that holds no transport.  `timeout` is
\* whether connection_timeout is Some, `resolve` what to_socket_addrs yields,
\* `tcp` whether the TCP connect succeeds.
ConnectResult(timeout, resolve, tcp) ==
    IF timeout /\ resolve # "ipv4" THEN "Panic"
    ELSE IF resolve = "fails" \/ ~tcp THEN "ConnectionError"
    ELSE "Ok"

Beanstalkc_connect ==
    /\ pc = "idle"
    /\ stream = "None"
    /\ \E timeout \in BOOLEAN, resolve \in {"ipv4", "ipv6", "fails"}, tcp \in BOOLEAN :
        /\ last' = [NoLast EXCEPT !.op = "connect", !.detail = resolve,
                                  !.res = ConnectResult(timeout, resolve, tcp)]
        /\ stream' = IF ConnectResult(timeout, resolve, tcp) = "Ok"
                     THEN "Open" ELSE "None"
    /\ pc' = "returned"
    /\ UNCHANGED <<inbuf, job>>

\* Job::release, bury and touch without their early return.
Job_skip_never(j) == FALSE

\* Job::delete, release and bury without `self.reserved = false`.
Job_finalized_not(j) == j

\* `if !self.reserved { return Ok(()); }` of Job::release, bury and touch.
Job_skip(j) == ~j.reserved

\* Job::delete, release and bury turning the flag over.
Job_finalized_flipped(j) == [j EXCEPT !.reserved = ~j.reserved]

\* `self.reserved = false` of Job::delete, release and bury.
Job_finalized(j) == [j EXCEPT !.reserved = FALSE]

\* One operation of the Job handle that delegates to the client.  `guarded`
\* operations return early on a Job that is not reserved; `clears`
\* operations reset the flag once the client call has succeeded.
JobOp(op, cmd, ret, guarded, clears) ==
    /\ pc = "idle"
    /\ job.live
    /\ IF guarded /\ Job_skip(job)
       THEN /\ last' = [NoLast EXCEPT !.op = op, !.res = "Ok", !.pre = job,
                                      !.connected = TRUE]
            /\ UNCHANGED <<inbuf, job>>
       ELSE \E e \in Envs : \E s \in {Beanstalkc_send(cmd, e)} :
            \E out \in {Returned(ret, s)} :
                /\ last' = Outcome(op, cmd, s, out.res, out.detail, e)
                /\ inbuf' = s.rest
                /\ job' = IF out.res = "Ok" /\ clears THEN Job_finalized(job) ELSE job
    /\ pc' = "returned"
    /\ UNCHANGED stream

\* Job::delete with the early return of release, bury and touch.
Job_delete_guarded == JobOp("Job.delete", delete(job.id), "unit", TRUE, TRUE)

Job_delete == JobOp("Job.delete", delete(job.id), "unit", FALSE, TRUE)

Job_release ==
    \E p \in Priorities, d \in Delays :
        JobOp("Job.release", release(job.id, p, d), "unit", TRUE, TRUE)

Job_bury ==
    \E p \in Priorities : JobOp("Job.bury", bury(job.id, p), "unit", TRUE, TRUE)

\* Job::kick with the early return of release, bury and touch.
Job_kick_guarded == JobOp("Job.kick", kick_job(job.id), "unit", TRUE, FALSE)

Job_kick == JobOp("Job.kick", kick_job(job.id), "unit", FALSE, FALSE)

\* Job::touch clearing the flag when the server answers TOUCHED.
Job_touch_finalizing == JobOp("Job.touch", touch(job.id), "unit", TRUE, TRUE)

Job_touch == JobOp("Job.touch", touch(job.id), "unit", TRUE, FALSE)

Job_stats == JobOp("Job.stats", stats_job(job.id), "map", FALSE, FALSE)

\* The value of Job::priority given the result of self.stats().
PriorityOf(s) ==
    The({IF pris = {} THEN DEFAULT_JOB_PRIORITY
         ELSE IF Parse(The(pris)[2]) < 0 THEN DEFAULT_JOB_PRIORITY
         ELSE Parse(The(pris)[2]) :
         pris \in {{kv \in (IF Returned("map", s).res = "Ok"
                           THEN body_as_map(s.decoded).value ELSE {}) :
                      kv[1] = <<"p", "r", "i">>}}})

\* Job::priority, the first half of release_default and of bury_default:
\* the stats-job round trip.  A panic unwinds out of the operation; otherwise
\* the operation goes on with the priority, and `detail` keeps how the stats
\* call ended.
Job_priority(op, next) ==
    /\ pc = "idle"
    /\ job.live
    /\ \E e \in Envs : \E s \in {Beanstalkc_send(stats_job(job.id), e)} :
        /\ last' = IF s.res = "Panic"
                    THEN Outcome(op, stats_job(job.id), s, "Panic", s.detail, e)
                    ELSE [NoLast EXCEPT !.op = op, !.sent = s.sent, !.res = "Pending",
                                        !.detail = s.res, !.pre = job,
                                        !.connected = TRUE,
                                        !.priority = PriorityOf(s)]
        /\ inbuf' = s.rest
        /\ pc' = IF s.res = "Panic" THEN "returned" ELSE next
    /\ UNCHANGED <<stream, job>>

\* The second half: self.release(priority, DEFAULT_JOB_DELAY) or
\* self.bury(priority).
Job_default(op, at, cmd) ==
    /\ pc = at
    /\ IF Job_skip(job)
       THEN /\ last' = [last EXCEPT !.res = "Ok", !.detail = ""]
            /\ UNCHANGED <<inbuf, job>>
       ELSE \E e \in Envs : \E s \in {Beanstalkc_send(cmd, e)} :
            \E out \in {Returned("unit", s)} :
                /\ last' = [Outcome(op, cmd, s, out.res, out.detail, e)
                            EXCEPT !.sent = last.sent \o s.sent,
                                   !.priority = last.priority]
                /\ inbuf' = s.rest
                /\ job' = IF out.res = "Ok" THEN Job_finalized(job) ELSE job
    /\ pc' = "returned"
    /\ UNCHANGED stream

Job_release_default_priority == Job_priority("Job.release_default", "release_default")

Job_release_default ==
    Job_default("Job.release_default", "release_default",
                release(job.id, last.priority, DEFAULT_JOB_DELAY))

Job_bury_default_priority == Job_priority("Job.bury_default", "bury_default")

Job_bury_default ==
    Job_default("Job.bury_default", "bury_default", bury(job.id, last.priority))

\* impl Drop for Beanstalkc, and Beanstalkc::close: quit is sent and the
\* result of the send is thrown away; a panic of the send is not a result
\* and unwinds out of drop.  The client is gone afterwards.
Beanstalkc_drop ==
    /\ pc = "idle"
    /\ \E e \in Envs : \E s \in {Beanstalkc_send(quit, e)} :
            /\ last' = Outcome("drop", quit, s,
                               IF s.res = "Panic" THEN "Panic" ELSE "Ok", s.res, e)
            /\ inbuf' = s.rest
    /\ job' = NoJob
    /\ pc' = "dropped"
    /\ UNCHANGED stream

\* What drop finds when it runs on a client that has already written quit:
\* the server answers quit with nothing, and the socket calls succeed or
\* fail.
DropEnvs ==
    IF stream = "None" THEN {Env(<<>>, "ok", 0)}
    ELSE {Env(<<>>, f, 0) : f \in {"ok", "write_err", "flush_err", "read_line_err"}}

\* Beanstalkc::send of quit by the drop that ends a failed reconnect: the
\* connection is the one close has just used, `rest` what close left of it.
send_on_drop(rest, e) ==
    IF stream = "None"
    THEN Sent("ConnectionError", "invalid connection", NoResponse, rest, <<>>)
    ELSE The({The({Classify(c, r, m) : r \in {Request_send(m, avail, e.io, e.short)}}) :
              c \in {quit}, m \in {build(quit)}, avail \in {rest}})

\* Beanstalkc::reconnect: close, its result thrown away, then connect, which
\* takes the client by value.  When connect succeeds the new stream replaces
\* the old one.  When connect returns its error or panics, or close has
\* panicked, the client is dropped on the way out, and drop calls close
\* again on the stream the client still holds.
Beanstalkc_reconnect ==
    /\ pc = "idle"
    /\ \E e \in Envs, d \in DropEnvs,
          timeout \in BOOLEAN, resolve \in {"ipv4", "ipv6", "fails"}, tcp \in BOOLEAN :
        \E s \in {Beanstalkc_send(quit, e)}, c \in {ConnectResult(timeout, resolve, tcp)} :
            IF s.res # "Panic" /\ c = "Ok"
            THEN /\ last' = Outcome("reconnect", quit, s, "Ok", resolve, e)
                 /\ stream' = "Open"
                 /\ inbuf' = <<>>
                 /\ pc' = "returned"
            ELSE \E s2 \in {send_on_drop(s.rest, d)} :
                 /\ last' = Outcome("reconnect", quit,
                                    [s EXCEPT !.sent = s.sent \o s2.sent],
                                    IF "Panic" \in {s.res, c, s2.res}
                                    THEN "Panic" ELSE "ConnectionError",
                                    resolve, e)
                 /\ stream' = stream
                 /\ inbuf' = s2.rest
                 /\ pc' = "dropped"
    /\ job' = NoJob

\* The caller takes the result of the operation and goes on; a panic ends
\* the program.
Caller_continue ==
    /\ pc = "returned"
    /\ last.res # "Panic"
    /\ pc' = "idle"
    /\ last' = NoLast
    /\ UNCHANGED <<stream, inbuf, job>>

Next ==
    \/ Beanstalkc_connect
    \/ Beanstalkc_put_default
    \/ Beanstalkc_put
    \/ Beanstalkc_reserve
    \/ Beanstalkc_reserve_with_timeout
    \/ Beanstalkc_kick
    \/ Beanstalkc_kick_job
    \/ Beanstalkc_peek
    \/ Beanstalkc_peek_ready
    \/ Beanstalkc_peek_delayed
    \/ Beanstalkc_peek_buried
    \/ Beanstalkc_tubes
    \/ Beanstalkc_using
    \/ Beanstalkc_use_tube
    \/ Beanstalkc_watching
    \/ Beanstalkc_watch
    \/ Beanstalkc_ignore
    \/ Beanstalkc_stats
    \/ Beanstalkc_stats_tube
    \/ Beanstalkc_pause_tube
    \/ Beanstalkc_delete
    \/ Beanstalkc_release_default
    \/ Beanstalkc_release
    \/ Beanstalkc_bury_default
    \/ Beanstalkc_bury
    \/ Beanstalkc_touch
    \/ Beanstalkc_stats_job
    \/ Job_delete
    \/ Job_release
    \/ Job_release_default_priority
    \/ Job_release_default
    \/ Job_bury
    \/ Job_bury_default_priority
    \/ Job_bury_default
    \/ Job_kick
    \/ Job_touch
    \/ Job_stats
    \/ Beanstalkc_reconnect
    \/ Beanstalkc_drop
    \/ Caller_continue

Spec == Init /\ [][Next]_vars

\* ------------------------------------------- the accessors of a Response
\* The accessors take &self and touch no connection: they are run on
\* Responses as Request::send and the tests of response.rs build them.
MaxIndex == 2

Indexes == 0..MaxIndex

\* Parameter lists: none, a number, a word, a signed number, two numbers,
\* a word before a number.
ResponseParams ==
    {<<>>, << <<"7">> >>, << <<"jobs">> >>, << <<"+", "5">> >>,
     << <<"7">>, <<"5">> >>, << <<"jobs">>, <<"7">> >>}

\* Bodies: a list of two items with its last line ended, a list of one item
\* without the line end, a map of two keys without the line end, a map of one
\* key with it, a bare word, an empty body, and a byte that is not UTF-8.
ResponseBodies ==
    {<<"-", "SP", "a", "LF", "-", "SP", "b", "LF">>,
     <<"-", "SP", "b">>,
     <<"a", ":", "SP", "5", "LF", "b", ":", "SP", "a">>,
     <<"p", "r", "i", ":", "SP", "5", "LF">>,
     <<"a">>, <<>>, <<"xFF">>}

Responses ==
    {Response(st, ps, FALSE, <<>>) :
        st \in {"Ok", "Inserted", "Reserved"}, ps \in ResponseParams}
    \cup {Response(st, ps, TRUE, b) :
        st \in {"Ok", "Reserved"}, ps \in ResponseParams, b \in ResponseBodies}

\* A Response is at hand; no client is involved.
ResponseInit ==
    /\ stream = "None"
    /\ inbuf = <<>>
    /\ job = NoJob
    /\ pc = "response"
    /\ \E r \in Responses : last = [NoLast EXCEPT !.decoded = r]

\* One call of an accessor on the Response, and what it returned.
Accessed(op, index, ok, value) ==
    /\ pc = "response"
    /\ pc' = "accessed"
    /\ last' = [last EXCEPT !.op = op, !.index = index,
                            !.res = IF ok THEN "Ok" ELSE "UnexpectedResponse",
                            !.value = IF ok THEN value ELSE NoValue]
    /\ UNCHANGED <<stream, inbuf, job>>

Response_get_param ==
    \E i \in Indexes : \E r \in {get_param(last.decoded, i)} :
        Accessed("get_param", i, r.ok, Value(r.value, -1, {}, <<>>))

Response_get_int_param ==
    \E i \in Indexes : \E n \in {get_int_param(last.decoded, i)} :
        Accessed("get_int_param", i, n >= 0, Value(<<>>, n, {}, <<>>))

Response_job_id ==
    \E n \in {job_id(last.decoded)} :
        Accessed("job_id", 0, n >= 0, Value(<<>>, n, {}, <<>>))

Response_body_as_map ==
    \E r \in {body_as_map(last.decoded)} :
        Accessed("body_as_map", 0, r.ok, Value(<<>>, -1, r.value, <<>>))

Response_body_as_vec ==
    \E r \in {body_as_vec(last.decoded)} :
        Accessed("body_as_vec", 0, r.ok, Value(<<>>, -1, {}, r.value))

\* The caller takes the result; the Response is still there for the next
\* call.
Response_again ==
    /\ pc = "accessed"
    /\ pc' = "response"
    /\ last' = [NoLast EXCEPT !.decoded = last.decoded]
    /\ UNCHANGED <<stream, inbuf, job>>

ResponseNext ==
    \/ Response_get_param
    \/ Response_get_int_param
    \/ Response_job_id
    \/ Response_body_as_map
    \/ Response_body_as_vec
    \/ Response_again

ResponseSpec == ResponseInit /\ [][ResponseNext]_vars

\* ------------------------------------------------------------ properties
\* The operations of the client, by the name the outcome records.
ClientOps ==
    {"put_default", "put", "reserve", "reserve_with_timeout", "kick", "kick_job",
     "peek", "peek_ready", "peek_delayed", "peek_buried", "tubes", "using",
     "use_tube", "watching", "watch", "ignore", "stats", "stats_tube",
     "pause_tube", "delete", "release_default", "release", "bury_default",
     "bury", "touch", "stats_job"}

\* A client operation has returned on an open transport and the reply was
\* decoded into a Response.
ClientDecoded ==
    /\ pc = "returned"
    /\ last.op \in ClientOps
    /\ last.connected
    /\ last.decoded.status # "None"

\* C1, as stated: for every client operation on an open transport whose reply
\* decodes to status S, the operation succeeds exactly when S is in the
\* command's ok set, fails with CommandFailed carrying S exactly when S is in
\* the error set, and fails with UnexpectedResponse for every other S.
C1_AsStated ==
    ClientDecoded =>
        /\ (last.res = "Ok") <=> (last.decoded.status \in last.ok)
        /\ (last.res = "CommandFailed" /\ last.detail = last.decoded.status)
               <=> (last.decoded.status \in last.err)
        /\ (last.decoded.status \notin (last.ok \cup last.err))
               => last.res = "UnexpectedResponse"

\* The operations that turn parameter 0 of the reply into a number, and
\* those that return it as text.
IntParamOps ==
    {"put_default", "put", "reserve", "reserve_with_timeout", "kick", "peek",
     "peek_ready", "peek_delayed", "peek_buried", "watch", "ignore"}

TextParamOps == {"using", "use_tube"}

\* The reply carries what the operation's return value is made from.
ReplyMapsToValue ==
    /\ (last.op \in IntParamOps) => get_int_param(last.decoded, 0) >= 0
    /\ (last.op \in TextParamOps) => get_param(last.decoded, 0).ok

\* C1, amended: CommandFailed carrying S exactly when S is in the error set;
\* UnexpectedResponse for every S in neither set; and for S in the ok set the
\* operation succeeds exactly when the reply carries the parameter the return
\* value is made from, and fails with UnexpectedResponse otherwise.
C1_Classification ==
    ClientDecoded =>
        /\ (last.res = "CommandFailed" /\ last.detail = last.decoded.status)
               <=> (last.decoded.status \in last.err)
        /\ (last.decoded.status \notin (last.ok \cup last.err))
               => last.res = "UnexpectedResponse"
        /\ (last.decoded.status \in last.ok)
               => /\ last.res \in {"Ok", "UnexpectedResponse"}
                  /\ (last.res = "Ok") <=> ReplyMapsToValue
        /\ (last.res = "Ok") => (last.decoded.status \in last.ok)

\* An ok status whose reply lacks the job id: put answered `INSERTED`.
C1_Witness ==
    /\ ClientDecoded
    /\ last.op = "put"
    /\ last.decoded.status = "Inserted"
    /\ last.decoded.params = <<>>
    /\ last.res = "UnexpectedResponse"

\* C2: with no transport open, every client operation fails with
\* ConnectionError at once: no command is written, nothing is read, no reply
\* is decoded.
C2_NoTransport ==
    (pc = "returned" /\ last.op \in ClientOps /\ ~last.connected) =>
        /\ last.res = "ConnectionError"
        /\ last.sent = <<>>
        /\ last.decoded = NoResponse
        /\ last.avail = <<>> /\ inbuf = <<>>

\* A put on a client that never connected.
C2_Witness ==
    /\ pc = "returned"
    /\ last.op = "put"
    /\ ~last.connected
    /\ stream = "None"
    /\ last.res = "ConnectionError"

JobOpsGuarded == {"Job.release", "Job.bury", "Job.touch"}

\* C3: on a Job whose reserved flag is false, release, bury and touch return
\* success, write no command and leave the Job as it was.
C3_NotReservedNoOp ==
    (pc = "returned" /\ last.op \in JobOpsGuarded /\ ~last.pre.reserved) =>
        /\ last.res = "Ok"
        /\ last.sent = <<>>
        /\ last.decoded = NoResponse
        /\ job = last.pre

\* A bury on a Job that was reserved with a body and finalized since.
C3_Witness ==
    /\ pc = "returned"
    /\ last.op = "Job.bury"
    /\ last.pre.live
    /\ ~last.pre.reserved
    /\ last.pre.body = <<"a", "b">>
    /\ last.res = "Ok"

ReserveOps == {"reserve", "reserve_with_timeout"}

PeekOps == {"peek", "peek_ready", "peek_delayed", "peek_buried"}

\* C4: the Job handed out by reserve / reserve_with_timeout is reserved, the
\* Job handed out by peek / peek_ready / peek_delayed / peek_buried is not,
\* and no other operation creates a Job: the other client operations and the
\* failed ones leave no Job, and the Job's own operations keep the Job they
\* were called on.
C4_JobCreation ==
    (pc = "returned") =>
        /\ (last.op \in ReserveOps /\ last.res = "Ok")
              => (job.live /\ job.reserved /\ job.id = job_id(last.decoded))
        /\ (last.op \in PeekOps /\ last.res = "Ok")
              => (job.live /\ ~job.reserved /\ job.id = job_id(last.decoded))
        /\ (last.op \in ClientOps /\ last.res # "Ok") => ~job.live
        /\ (last.op \in ClientOps \ (ReserveOps \cup PeekOps)) => ~job.live
        /\ (last.op \in {"connect", "reconnect"}) => ~job.live
        /\ (last.op \notin (ClientOps \cup {"connect", "reconnect"}))
              => /\ last.pre.live /\ job.live
                 /\ job.id = last.pre.id /\ job.body = last.pre.body

\* A Job handed out by peek_ready.
C4_Witness ==
    /\ pc = "returned"
    /\ last.op = "peek_ready"
    /\ last.res = "Ok"
    /\ job.live
    /\ ~job.reserved

\* The ok statuses of release and of bury.
OkOfJobOp(op) ==
    IF op \in {"Job.release", "Job.release_default"}
    THEN {"Released", "Buried"} ELSE {"Buried"}

\* C5: release or bury on a reserved Job whose reply is an ok status of the
\* command (Released or Buried for release, Buried for bury) succeeds and
\* leaves the Job with reserved = false.
C5_FinalizedOnOk ==
    (/\ pc = "returned"
     /\ last.op \in {"Job.release", "Job.bury", "Job.release_default",
                     "Job.bury_default"}
     /\ last.pre.reserved
     /\ last.decoded.status \in OkOfJobOp(last.op)) =>
        /\ last.res = "Ok"
        /\ ~job.reserved
        /\ job = Job_finalized(last.pre)

\* A release of a reserved Job answered BURIED.
C5_Witness ==
    /\ pc = "returned"
    /\ last.op = "Job.release"
    /\ last.pre.reserved
    /\ last.decoded.status = "Buried"
    /\ ~job.reserved

\* C6, as stated: Job.delete writes the delete command for the Job's id
\* whatever the flag, and the Job has reserved = false when it has returned.
C6_AsStated ==
    (pc = "returned" /\ last.op = "Job.delete" /\ last.res # "Panic") =>
        /\ last.sent = <<build(delete(last.pre.id))>>
        /\ ~job.reserved

\* C6, amended: Job.delete writes the delete command for the Job's id
\* whatever the flag; the Job has reserved = false after a delete that
\* returned success, and is unchanged after a delete that returned an error.
C6_DeleteAlwaysSends ==
    (pc = "returned" /\ last.op = "Job.delete") =>
        /\ last.sent = <<build(delete(last.pre.id))>>
        /\ (last.res = "Ok") => job = Job_finalized(last.pre)
        /\ (last.res # "Ok") => job = last.pre

\* A delete of a reserved Job answered NOT_FOUND: the flag stays set.
C6_Witness ==
    /\ pc = "returned"
    /\ last.op = "Job.delete"
    /\ last.pre.reserved
    /\ last.decoded.status = "NotFound"
    /\ last.res = "CommandFailed"
    /\ job.reserved

\* C7: Job.kick and Job.stats write their command (kick-job, stats-job) for
\* the Job's id whether the Job is reserved or not, and leave the flag, the
\* id and the body as they were.
C7_KickStatsUnconditional ==
    (pc = "returned" /\ last.op \in {"Job.kick", "Job.stats"}) =>
        /\ last.sent = <<build(IF last.op = "Job.kick" THEN kick_job(last.pre.id)
                               ELSE stats_job(last.pre.id))>>
        /\ job = last.pre

\* A kick of a Job that is not reserved, answered KICKED.
C7_Witness ==
    /\ pc = "returned"
    /\ last.op = "Job.kick"
    /\ ~last.pre.reserved
    /\ last.sent = <<build(kick_job(last.pre.id))>>
    /\ last.res = "Ok"

JobOpsDefault == {"Job.release_default", "Job.bury_default"}

\* C8, as stated: the priority lookup of release_default / bury_default never
\* propagates a failure: whatever happens to the stats-job request, the
\* operation goes on to write its release or bury command with the priority
\* the lookup yielded.
C8_AsStated ==
    (pc = "returned" /\ last.op \in JobOpsDefault /\ last.pre.reserved) =>
        /\ Len(last.sent) = 2
        /\ last.sent[1] = build(stats_job(last.pre.id))
        /\ last.sent[2] =
              build(IF last.op = "Job.release_default"
                    THEN release(last.pre.id, last.priority, DEFAULT_JOB_DELAY)
                    ELSE bury(last.pre.id, last.priority))

\* C9, as stated: on a Job whose reserved flag is false, release_default and
\* bury_default return success and write no command at all, neither the
\* release / bury nor the stats-job of the priority lookup.
C9_AsStated ==
    (/\ pc = "returned"
     /\ last.op \in JobOpsDefault
     /\ ~last.pre.reserved
     /\ last.res # "Panic") =>
        /\ last.res = "Ok"
        /\ last.sent = <<>>

\* The status line of the reply the operation decoded, and the byte count it
\* announces at parameter `idx`.
StatusLineLen == Len(ReadLine(last.avail))

Announced(idx) ==
    IF Len(last.decoded.params) > idx THEN Parse(last.decoded.params[idx + 1])
    ELSE -1

AnnouncedBytes ==
    Announced(IF last.decoded.status = "Ok" THEN 0 ELSE 1)

\* C10, as stated: when the decoded status is Ok, Reserved or Found and the
\* connection holds the announced bytes and their terminator, the body of the
\* Response is exactly the N bytes that follow the status line (N at index 0
\* for Ok, index 1 for Reserved and Found), the terminator neither part of
\* the body nor left unread; for every other status there is no body.
C10_AsStated ==
    (pc = "returned" /\ last.decoded.status # "None") =>
        IF last.decoded.status \in {"Ok", "Reserved", "Found"}
        THEN (/\ AnnouncedBytes >= 0
              /\ Len(last.avail) >= StatusLineLen + AnnouncedBytes + 2) =>
                 /\ last.decoded.hasBody
                 /\ last.decoded.body =
                       SubSeq(last.avail, StatusLineLen + 1,
                              StatusLineLen + AnnouncedBytes)
                 /\ inbuf = SubSeq(last.avail, StatusLineLen + AnnouncedBytes + 3,
                                   Len(last.avail))
        ELSE ~last.decoded.hasBody

\* The symbols the round trip took from the connection.
Consumed == Len(last.avail) - Len(inbuf)

\* C11, as stated: send never returns a truncated or padded body: a Response
\* with a body is returned only when the stream delivered all of the N
\* announced bytes and the 2 terminator bytes to the read, and its body is
\* those N bytes; a short read or a disconnect in the body is an error.
C11_AsStated ==
    (pc = "returned" /\ last.decoded.hasBody) =>
        /\ Consumed = StatusLineLen + AnnouncedBytes + 2
        /\ last.decoded.body =
              SubSeq(last.avail, StatusLineLen + 1, StatusLineLen + AnnouncedBytes)

\* The status line the connection delivered to the round trip, split.
ReplyParts == split_whitespace(ReadLine(last.avail))

ReplyStatus ==
    IF ReplyParts = <<>> THEN "None" ELSE Status_from_str(ReplyParts[1])

\* Where the protocol puts the byte count of a body-bearing reply.
ReplyCountAt == IF ReplyStatus = "Ok" THEN 2 ELSE 3

EndsWithCRLF(s) == Len(s) >= 2 /\ s[Len(s) - 1] = "CR" /\ s[Len(s)] = "LF"

\* What the connection delivered is exactly one well-formed reply: a status
\* line with a known keyword and, for OK / RESERVED / FOUND, the announced
\* number of body bytes and their CRLF.
WellFormedReply ==
    /\ ReplyStatus # "None"
    /\ EndsWithCRLF(ReadLine(last.avail))
    /\ IF ReplyStatus \in {"Ok", "Reserved", "Found"}
       THEN /\ Len(ReplyParts) >= ReplyCountAt
            /\ Parse(ReplyParts[ReplyCountAt]) >= 0
            /\ Len(last.avail) = StatusLineLen + Parse(ReplyParts[ReplyCountAt]) + 2
            /\ EndsWithCRLF(last.avail)
       ELSE Len(last.avail) = StatusLineLen

\* C12, as stated: framing stays aligned: when a round trip that met no
\* socket failure returns and the connection held exactly one well-formed
\* reply for it, of a status the command expects, every symbol of the reply
\* has been consumed, so the next round trip starts at the first line of its
\* own reply.
C12_AsStated ==
    (/\ pc = "returned"
     /\ last.sent # <<>>
     /\ last.io = "ok"
     /\ WellFormedReply
     /\ ReplyStatus \in (last.ok \cup last.err)) => inbuf = <<>>

\* The per-operation table: the ok statuses and the error statuses of each
\* command, by its name on the wire.
TableOk(kind) ==
    CASE kind = "put" -> {"Inserted"}
      [] kind \in {"reserve", "reserve-with-timeout"} -> {"Reserved"}
      [] kind \in {"kick", "kick-job"} -> {"Kicked"}
      [] kind \in {"peek", "peek-ready", "peek-delayed", "peek-buried"} -> {"Found"}
      [] kind \in {"list-tubes", "list-tubes-watched", "stats", "stats-job",
                   "stats-tube"} -> {"Ok"}
      [] kind \in {"list-tube-used", "use"} -> {"Using"}
      [] kind \in {"watch", "ignore"} -> {"Watching"}
      [] kind = "pause-tube" -> {"Paused"}
      [] kind = "delete" -> {"Deleted"}
      [] kind = "release" -> {"Released", "Buried"}
      [] kind = "bury" -> {"Buried"}
      [] kind = "touch" -> {"Touched"}
      [] OTHER -> {"no row"}

TableErr(kind) ==
    CASE kind = "put" -> {"JobTooBig", "Buried", "Draining"}
      [] kind \in {"reserve", "reserve-with-timeout"} -> {"TimedOut", "DeadlineSoon"}
      [] kind \in {"kick", "list-tubes", "list-tubes-watched", "stats",
                   "list-tube-used", "use", "watch"} -> {}
      [] kind = "ignore" -> {"NotIgnored"}
      [] kind \in {"kick-job", "peek", "peek-ready", "peek-delayed", "peek-buried",
                   "stats-job", "stats-tube", "pause-tube", "delete", "release",
                   "bury", "touch"} -> {"NotFound"}
      [] OTHER -> {"no row"}

\* C13: the ok-status set and the error-status set of the Command every
\* operation builds are exactly those of the per-operation table (quit, which
\* close writes, is no operation and has no row).
C13_StatusTable ==
    (pc = "returned" /\ last.cmd # NoCommand /\ last.cmd.kind # "quit") =>
        /\ last.cmd.expected_ok_status = TableOk(last.cmd.kind)
        /\ last.cmd.expected_error_status = TableErr(last.cmd.kind)

\* A touch, whose ok status is Touched, answered TOUCHED.
C13_Witness ==
    /\ pc = "returned"
    /\ last.op = "touch"
    /\ last.cmd.kind = "touch"
    /\ last.cmd.expected_ok_status = {"Touched"}
    /\ last.decoded.status = "Touched"
    /\ last.res = "Ok"

ReleaseOps == {"release", "release_default", "Job.release", "Job.release_default"}

\* A release command was written and the transport returned a Response for
\* it.
ReleaseDecoded ==
    /\ pc = "returned"
    /\ last.op \in ReleaseOps
    /\ last.cmd.kind = "release"
    /\ last.decoded.status # "None"

C15_IgnoreNotIgnored ==
    (/\ pc = "returned"
     /\ last.op = "ignore"
     /\ last.connected
     /\ last.io = "ok"
     /\ ReplyStatus = "NotIgnored") =>
        /\ last.res = "CommandFailed"
        /\ last.detail = "NotIgnored"
        /\ stream = "Open"
        /\ inbuf = SubSeq(last.avail, StatusLineLen + 1, Len(last.avail))
        /\ ~job.live

\* An ignore answered NOT_IGNORED.
C15_Witness ==
    /\ pc = "returned"
    /\ last.op = "ignore"
    /\ last.avail = <<"NOT_IGNORED", "CR", "LF">>
    /\ last.res = "CommandFailed"
    /\ last.detail = "NotIgnored"
    /\ inbuf = <<>>

\* C16, as stated: when the first token of the reply line is not one of the
\* status keywords, the round trip fails with UnexpectedResponse: not with
\* CommandFailed, not with ConnectionError, not with a panic.
C16_AsStated ==
    (/\ pc = "returned"
     /\ last.sent # <<>>
     /\ last.io = "ok"
     /\ ReplyParts # <<>>
     /\ ReplyStatus = "None") => last.res = "UnexpectedResponse"

\* The symbols read_line took off the connection, and the line it left in
\* `line`: nothing when the read failed or the bytes were not UTF-8.
LineTaken == IF last.io = "read_line_err" THEN <<>> ELSE ReadLine(last.avail)

LineRead == IF IsUtf8(LineTaken) THEN LineTaken ELSE <<>>

\* A command was written and flushed, and its reply line was read.
LineWasRead ==
    /\ pc = "returned"
    /\ last.connected
    /\ last.cmd # NoCommand
    /\ last.io \notin {"write_err", "flush_err"}

\* C17: when the line read for a reply is empty or holds only whitespace,
\* the round trip fails with UnexpectedResponse and produces no Response (so
\* no Job either); only that line is taken off the connection.  (reconnect
\* throws the result of its round trip away and is left out.)
C17_EmptyLine ==
    (LineWasRead /\ last.op # "reconnect" /\ \A i \in 1..Len(LineRead) : IsWhitespace(LineRead[i])) =>
        /\ last.res = "UnexpectedResponse"
        /\ last.detail = "empty response"
        /\ last.decoded = NoResponse
        /\ inbuf = SubSeq(last.avail, Len(LineTaken) + 1, Len(last.avail))
        /\ (last.op \in ClientOps) => ~job.live

\* A reserve answered with a bare CRLF.
C17_Witness ==
    /\ LineWasRead
    /\ last.op = "reserve"
    /\ last.avail = <<"CR", "LF">>
    /\ last.res = "UnexpectedResponse"
    /\ last.detail = "empty response"

\* The reply line carries a body-bearing keyword but not its byte count: the
\* parameter is missing or is no decimal number.
ByteCountMalformed ==
    /\ ReplyStatus \in {"Ok", "Reserved", "Found"}
    /\ \/ Len(ReplyParts) < ReplyCountAt
       \/ Parse(ReplyParts[ReplyCountAt]) < 0

\* C18, as stated: when an OK, RESERVED or FOUND reply lacks its byte-length
\* parameter, or the parameter is no non-negative decimal number, the round
\* trip returns UnexpectedResponse; it does not panic.
C18_AsStated ==
    (LineWasRead /\ last.io = "ok" /\ ByteCountMalformed)
        => last.res = "UnexpectedResponse"

\* C19, as stated: a socket failure during a round trip (the write, the
\* flush, the read of the status line or the read of the body fails) comes
\* back to the caller as ConnectionError: no panic, no other error kind.
C19_AsStated ==
    (/\ pc = "returned"
     /\ last.connected
     /\ last.cmd # NoCommand
     /\ last.io # "ok") => last.res = "ConnectionError"

\* The encoding of put the protocol asks for: the command line with the
\* length of the body, CRLF, the bytes of the body as they are, CRLF.
PutWire(b, priority, delay, ttr) ==
    <<"put", "SP">> \o to_string(priority) \o <<"SP">> \o to_string(delay)
        \o <<"SP">> \o to_string(ttr) \o <<"SP">> \o to_string(Len(b))
        \o <<"CR", "LF">> \o b \o <<"CR", "LF">>

\* C20, as stated: for every body, valid UTF-8 or not, and every priority,
\* delay and ttr, what put writes is `put <priority> <delay> <ttr> <len>`
\* CRLF, the bytes of the body verbatim, CRLF.
C20_AsStated ==
    (pc = "returned" /\ last.connected /\ last.op \in {"put", "put_default"}) =>
        \E p \in Priorities \cup {DEFAULT_JOB_PRIORITY},
           d \in Delays \cup {DEFAULT_JOB_DELAY},
           t \in Ttrs \cup {DEFAULT_JOB_TTR} :
            /\ last.cmd = put(last.cmd.body, p, d, t)
            /\ last.sent = <<PutWire(last.cmd.body, p, d, t)>>

\* The last command the operation wrote.
LastSent == IF last.sent = <<>> THEN <<>> ELSE last.sent[Len(last.sent)]

\* The release line of the protocol: job id, priority, delay in seconds.
ReleaseWire(id, priority, delay) ==
    <<"release", "SP">> \o to_string(id) \o <<"SP">> \o to_string(priority)
        \o <<"SP">> \o to_string(delay) \o <<"CR", "LF">>

\* C21: release(id, pri, delay) is written as `release <id> <pri> <delay>`
\* CRLF, job id first, then priority, then delay in seconds, by every
\* operation that releases: Client.release and release_default, Job.release
\* and release_default.
C21_ReleaseEncoding ==
    (pc = "returned" /\ last.connected /\ last.cmd.kind = "release") =>
        \E id \in JobIds,
           p \in Priorities \cup {DEFAULT_JOB_PRIORITY, last.priority},
           d \in Delays \cup {DEFAULT_JOB_DELAY} :
            /\ last.cmd = release(id, p, d)
            /\ (last.op \in {"Job.release", "Job.release_default"}) => id = last.pre.id
            /\ (last.op = "Job.release_default")
                  => (p = last.priority /\ d = DEFAULT_JOB_DELAY)
            /\ (last.op = "release_default")
                  => (p = DEFAULT_JOB_PRIORITY /\ d = DEFAULT_JOB_DELAY)
            /\ LastSent = ReleaseWire(id, p, d)

\* A release of job 7 with priority 1024 and a delay of 10 seconds.
C21_Witness ==
    /\ pc = "returned"
    /\ last.op = "release"
    /\ LastSent = <<"release", "SP", "7", "SP", "1", "0", "2", "4", "SP", "1", "0",
                    "CR", "LF">>

\* C22: reserve without a timeout is written as exactly `reserve` CRLF, and
\* reserve with a timeout of t seconds as `reserve-with-timeout <t>` CRLF; the
\* keyword follows from the presence of the timeout, a timeout of 0 seconds
\* included.
C22_ReserveEncoding ==
    (pc = "returned" /\ last.connected) =>
        /\ (last.op = "reserve") =>
              /\ last.cmd = reserve(FALSE, 0)
              /\ last.sent = << <<"reserve", "CR", "LF">> >>
        /\ (last.op = "reserve_with_timeout") =>
              \E t \in Timeouts :
                  /\ last.cmd = reserve(TRUE, t)
                  /\ last.sent = << <<"reserve-with-timeout", "SP">> \o to_string(t)
                                      \o <<"CR", "LF">> >>

\* A reserve with a timeout of 0 seconds.
C22_Witness ==
    /\ pc = "returned"
    /\ last.op = "reserve_with_timeout"
    /\ last.sent = << <<"reserve-with-timeout", "SP", "0", "CR", "LF">> >>

\* The one line of a command without a body: the keyword, every argument
\* preceded by one space, CRLF.
RECURSIVE SpacedArgs(_)
SpacedArgs(args) ==
    IF args = <<>> THEN <<>> ELSE <<"SP">> \o Head(args) \o SpacedArgs(Tail(args))

SingleLine(keyword, args) == <<keyword>> \o SpacedArgs(args) \o <<"CR", "LF">>

\* The line terminators of a message are its last two symbols only.
OneLine(m) ==
    /\ EndsWithCRLF(m)
    /\ \A i \in 1..(Len(m) - 2) : m[i] \notin {"CR", "LF"}

\* C23: every command other than put is written as a single line without a
\* body: the keyword, each argument preceded by exactly one space, CRLF; a
\* command without arguments is its keyword and CRLF (quit of close and drop
\* included).
C23_SingleLine ==
    (pc \in {"returned", "dropped"} /\ last.connected /\ last.cmd # NoCommand
        /\ last.cmd.kind # "put") =>
        /\ ~last.cmd.hasBody
        /\ LastSent = SingleLine(last.cmd.kind, last.cmd.args)
        /\ (last.cmd.args = <<>>) => LastSent = <<last.cmd.kind, "CR", "LF">>
        /\ \A i \in 1..Len(last.sent) : OneLine(last.sent[i])

\* pause-tube with its two arguments, the tube and the delay.
C23_Witness ==
    /\ pc = "returned"
    /\ last.op = "pause_tube"
    /\ LastSent = <<"pause-tube", "SP", "jobs", "SP", "1", "0", "CR", "LF">>

\* quit written by drop.
C23_WitnessQuit ==
    /\ pc = "dropped"
    /\ last.sent = << <<"quit", "CR", "LF">> >>

\* The keywords whose reply is a line only.
LineOnlyKeywords == DOMAIN StatusKeyword \ {"OK", "RESERVED", "FOUND"}

\* The parameter lists the server sends after such a keyword.
LineOnlyParams == {<<>>, << <<"7">> >>, << <<"jobs">> >>, << <<"7">>, <<"jobs">> >>}

\* C24: a reply line with a keyword that announces no body decodes to that
\* status, every token after the keyword as a parameter, in order and as the
\* string it was sent as, and no body; `INSERTED 7` gives job_id() = 7, and
\* a parameter that is no number (`USING jobs`) decodes all the same.
C24_LineOnlyDecoding ==
    (LineWasRead /\ last.io = "ok") =>
        \A k \in LineOnlyKeywords, ps \in LineOnlyParams :
            (ReadLine(last.avail) = Line(<< <<k>> >> \o ps)) =>
                /\ last.decoded = Response(StatusKeyword[k], ps, FALSE, <<>>)
                /\ \A i \in 1..Len(ps) : get_param(last.decoded, i - 1).value = ps[i]
                /\ (ps # <<>> /\ ps[1] = <<"7">>) => job_id(last.decoded) = 7
                /\ last.res # "Panic"

\* `INSERTED 7 jobs` was decoded: two parameters in the order sent.
C24_Witness ==
    /\ pc = "returned"
    /\ last.avail = <<"INSERTED", "SP", "7", "SP", "jobs", "CR", "LF">>
    /\ last.decoded.status = "Inserted"
    /\ last.decoded.params = << <<"7">>, <<"jobs">> >>

\* `USING jobs` was decoded and use_tube returned the tube.
C24_WitnessUsing ==
    /\ pc = "returned"
    /\ last.op = "use_tube"
    /\ last.avail = <<"USING", "SP", "jobs", "CR", "LF">>
    /\ last.decoded = Response("Using", << <<"jobs">> >>, FALSE, <<>>)
    /\ last.res = "Ok"

\* A token u64::from_str takes: decimal digits, after a + or not.
Unsigned(tok) == IF tok # <<>> /\ Head(tok) = "+" THEN Tail(tok) ELSE tok

IsDecimalU64(tok) ==
    /\ Unsigned(tok) # <<>>
    /\ \A i \in 1..Len(Unsigned(tok)) : Unsigned(tok)[i] \in {"0", "1", "2", "3", "4", "5", "6", "7", "8", "9"}

\* The result recorded is Ok(n) with n written as the token, when the
\* parameter at `index` is there and a decimal u64, and UnexpectedResponse
\* otherwise.
IntParamResult(index) ==
    IF index < Len(last.decoded.params) /\ IsDecimalU64(last.decoded.params[index + 1])
    THEN /\ last.res = "Ok"
         /\ to_string(last.value.int) = Unsigned(last.decoded.params[index + 1])
    ELSE last.res = "UnexpectedResponse" /\ last.value = NoValue

C25_Results ==
    (pc = "accessed") =>
        /\ (last.op = "get_param") =>
              IF last.index < Len(last.decoded.params)
              THEN /\ last.res = "Ok"
                   /\ last.value.text = last.decoded.params[last.index + 1]
              ELSE last.res = "UnexpectedResponse" /\ last.value = NoValue
        /\ (last.op = "get_int_param") => IntParamResult(last.index)
        /\ (last.op = "job_id") => IntParamResult(0)

\* C25: get_param(i) returns the i-th parameter when i is in range and fails
\* with UnexpectedResponse when it is not; get_int_param(i) fails with
\* UnexpectedResponse also when the parameter is no decimal u64 and returns
\* its value otherwise; job_id() is get_int_param(0); and no call of an
\* accessor changes the Response.
C25_Accessors ==
    /\ []C25_Results
    /\ [][last'.decoded = last.decoded]_vars

\* get_int_param(1) of `RESERVED 7 5` with a body returned 5, and the
\* Response is as it was.
C25_Witness ==
    /\ pc = "accessed"
    /\ last.op = "get_int_param"
    /\ last.index = 1
    /\ last.decoded.status = "Reserved"
    /\ last.decoded.params = << <<"7">>, <<"5">> >>
    /\ last.decoded.hasBody
    /\ last.res = "Ok"
    /\ last.value.int = 5

\* get_param(2) of a Response with two parameters failed.
C25_WitnessMissing ==
    /\ pc = "accessed"
    /\ last.op = "get_param"
    /\ last.index = 2
    /\ Len(last.decoded.params) = 2
    /\ last.res = "UnexpectedResponse"

\* C26: on a Response without a body, body_as_map returns Ok with the empty
\* map and body_as_vec returns Ok with the empty list.
C26_NoBody ==
    (pc = "accessed" /\ ~last.decoded.hasBody) =>
        /\ (last.op = "body_as_map") => (last.res = "Ok" /\ last.value.map = {})
        /\ (last.op = "body_as_vec") => (last.res = "Ok" /\ last.value.vec = <<>>)

\* body_as_map was called on `INSERTED 7`, which has no body.
C26_Witness ==
    /\ pc = "accessed"
    /\ last.op = "body_as_map"
    /\ last.decoded = Response("Inserted", << <<"7">> >>, FALSE, <<>>)
    /\ last.res = "Ok"

\* body_as_vec was called on a Response without a body.
C26_WitnessVec ==
    /\ pc = "accessed"
    /\ last.op = "body_as_vec"
    /\ ~last.decoded.hasBody
    /\ last.res = "Ok"

\* The lines of a body, and the two forms a line has in the bodies of the
\* protocol: `- value` in a list, `key: value` in a map.
BodyLines(b) == SplitLines(b, <<>>, <<>>)

HasItemForm(l) == Len(l) > 2 /\ SubSeq(l, 1, 2) = <<"-", "SP">>

HasPairForm(l) == \E i \in 2..(Len(l) - 2) : SubSeq(l, i, i + 1) = <<":", "SP">>

\* A body of valid UTF-8 that is not empty and is no list / no map.
MalformedList(b) ==
    IsUtf8(b) /\ b # <<>> /\ \E i \in 1..Len(BodyLines(b)) : ~HasItemForm(BodyLines(b)[i])

MalformedMap(b) ==
    IsUtf8(b) /\ b # <<>> /\ \E i \in 1..Len(BodyLines(b)) : ~HasPairForm(BodyLines(b)[i])

\* C27, as stated: body_as_map and body_as_vec return an error, and no empty
\* container, when the body is not valid UTF-8 and also when it is valid
\* UTF-8 but malformed for the format asked for (a list given to the map
\* accessor, a map given to the list accessor).
C27_AsStated ==
    (pc = "accessed" /\ last.decoded.hasBody) =>
        /\ (last.op = "body_as_map"
              /\ (~IsUtf8(last.decoded.body) \/ MalformedMap(last.decoded.body)))
              => last.res = "UnexpectedResponse"
        /\ (last.op = "body_as_vec"
              /\ (~IsUtf8(last.decoded.body) \/ MalformedList(last.decoded.body)))
              => last.res = "UnexpectedResponse"

\* The part of C27 about UTF-8: a body that is not valid UTF-8 makes both
\* accessors fail with UnexpectedResponse.
C27_InvalidUtf8 ==
    (pc = "accessed" /\ last.decoded.hasBody /\ ~IsUtf8(last.decoded.body)
        /\ last.op \in {"body_as_map", "body_as_vec"})
        => last.res = "UnexpectedResponse"

\* The values and keys of the bodies written out below.
ItemValues == {<<"a">>, <<"b">>}

MapKeys == {<<"a">>, <<"b">>, <<"p", "r", "i">>}

MapValues == {<<"5">>, <<"a">>}

MaxLines == 2

\* The sequences of 1..MaxLines elements of S.
LinesOf(S) == UNION {[1..n -> S] : n \in 1..MaxLines}

\* The body whose lines are ls: LF between the lines, and after the last
\* one when `terminated`.
RECURSIVE JoinLines(_, _)
JoinLines(ls, terminated) ==
    IF Len(ls) = 1 THEN ls[1] \o (IF terminated THEN <<"LF">> ELSE <<>>)
    ELSE ls[1] \o <<"LF">> \o JoinLines(Tail(ls), terminated)

ListBody(vals, terminated) ==
    JoinLines([i \in 1..Len(vals) |-> <<"-", "SP">> \o vals[i]], terminated)

MapBody(pairs, terminated) ==
    JoinLines([i \in 1..Len(pairs) |-> pairs[i][1] \o <<":", "SP">> \o pairs[i][2]],
              terminated)

\* C28: body_as_vec on a body of n lines `- <value>` returns the n values in
\* the order of the lines.
C28_ListBody ==
    (pc = "accessed" /\ last.op = "body_as_vec" /\ last.decoded.hasBody) =>
        \A vals \in LinesOf(ItemValues), terminated \in BOOLEAN :
            (last.decoded.body = ListBody(vals, terminated)) =>
                (last.res = "Ok" /\ last.value.vec = vals)

\* The list of response.rs's test, two items on two ended lines.
C28_Witness ==
    /\ pc = "accessed"
    /\ last.op = "body_as_vec"
    /\ last.decoded.body = <<"-", "SP", "a", "LF", "-", "SP", "b", "LF">>
    /\ last.value.vec = << <<"a">>, <<"b">> >>

\* C29: body_as_map on a body of `key: value` lines with distinct keys
\* returns exactly those keys, each with its value as a string; the last
\* line needs no terminator.
C29_MapBody ==
    (pc = "accessed" /\ last.op = "body_as_map" /\ last.decoded.hasBody) =>
        \A pairs \in LinesOf(MapKeys \X MapValues), terminated \in BOOLEAN :
            (/\ \A i, j \in 1..Len(pairs) : (i # j) => pairs[i][1] # pairs[j][1]
             /\ last.decoded.body = MapBody(pairs, terminated)) =>
                /\ last.res = "Ok"
                /\ last.value.map = {pairs[i] : i \in 1..Len(pairs)}

\* The shape of response.rs's test: two keys, a number and a word, the last
\* line not ended.
C29_Witness ==
    /\ pc = "accessed"
    /\ last.op = "body_as_map"
    /\ last.decoded.body = <<"a", ":", "SP", "5", "LF", "b", ":", "SP", "a">>
    /\ last.value.map = {<< <<"a">>, <<"5">> >>, << <<"b">>, <<"a">> >>}

\* What put(b) writes between the CRLF of its line and the CRLF that ends
\* the command: the bytes the server receives as the payload of the job.
PayloadWritten(b) ==
    LET wire == build(put(b, DEFAULT_JOB_PRIORITY, DEFAULT_JOB_DELAY, DEFAULT_JOB_TTR))
        line == ReadLine(wire)
    IN  SubSeq(wire, Len(line) + 1, Len(wire) - 2)

\* The reply that hands job 7 back with the payload the server received.
HandsBack(keyword, b) ==
    WithBody(<< <<keyword>>, <<"7">>, to_string(Len(PayloadWritten(b))) >>,
             PayloadWritten(b))

\* C30, as stated: for every byte sequence b, valid UTF-8 or not, when the
\* server answers reserve with RESERVED, or peek with FOUND, carrying the
\* payload it received from put(b), the operation succeeds and the body of
\* the Job is b, byte for byte.
C30_AsStated ==
    (pc = "returned" /\ last.connected /\ last.io = "ok") =>
        \A b \in Payloads :
            /\ (last.op \in ReserveOps /\ last.avail = HandsBack("RESERVED", b))
                  => (last.res = "Ok" /\ job.live /\ job.body = b)
            /\ (last.op \in PeekOps /\ last.avail = HandsBack("FOUND", b))
                  => (last.res = "Ok" /\ job.live /\ job.body = b)

\* The round trip that works: a payload of valid UTF-8, handed back in a
\* RESERVED reply that one read delivers in full.
C30_Utf8ReservedFullRead ==
    (pc = "returned" /\ last.connected /\ last.io = "ok" /\ last.short = 0
        /\ last.op \in ReserveOps) =>
        \A b \in {x \in Payloads : IsUtf8(x)} :
            (last.avail = HandsBack("RESERVED", b))
                => (last.res = "Ok" /\ job.live /\ job.body = b)

\* The payload that is not UTF-8 alone, handed back to reserve and read in
\* full.
C30_NotUtf8 ==
    (pc = "returned" /\ last.connected /\ last.io = "ok" /\ last.short = 0
        /\ last.op \in ReserveOps /\ last.avail = HandsBack("RESERVED", <<"xFF">>))
        => (last.res = "Ok" /\ job.live /\ job.body = <<"xFF">>)

\* C31, as stated: dropping a Client completes without a panic and without
\* an error whatever the state of the transport: never opened, open, or
\* already closed by the peer, so that the write of quit fails.
C31_AsStated ==
    (pc = "dropped" /\ last.op = "drop") => last.res = "Ok"

\* The part of C31 that holds: on a transport that was never opened, and on
\* an open one that takes the write and delivers no reply to quit, drop
\* completes and the error of the send is thrown away.
C31_QuitUnanswered ==
    (pc = "dropped" /\ last.op = "drop"
        /\ last.io \notin {"write_err", "flush_err"} /\ last.avail = <<>>)
        => (last.res = "Ok" /\ last.detail \in {"ConnectionError", "UnexpectedResponse"})

\* C32, as stated: connect returns a client with an open transport or a
\* ConnectionError, and never panics: not when the address does not resolve,
\* not when it resolves to no IPv4 address.
C32_AsStated ==
    (pc = "returned" /\ last.op = "connect") =>
        /\ last.res \in {"Ok", "ConnectionError"}
        /\ (last.res = "Ok") <=> (stream = "Open")

\* The part of C32 that holds: when the address resolves to an IPv4 address,
\* connect returns Ok with an open transport or ConnectionError.
C32_Ipv4 ==
    (pc = "returned" /\ last.op = "connect" /\ last.detail = "ipv4") =>
        /\ last.res \in {"Ok", "ConnectionError"}
        /\ (last.res = "Ok") <=> (stream = "Open")

\* The classification of Beanstalkc::send with its two tests in the other
\* order: the error set first.
ErrorFirst(cmd, status) ==
    IF status \in cmd.expected_error_status THEN "CommandFailed"
    ELSE IF status \in cmd.expected_ok_status THEN "Ok"
    ELSE "UnexpectedResponse"

\* The result Beanstalkc::send gives: the operation's own result, but for
\* the failure of the accessor the operation applies to an accepted reply.
SendRes == IF last.detail = "param" \/ last.detail = "Utf8Error" THEN "Ok" ELSE last.res

\* C33: the ok-status set and the error-status set of the Command of every
\* constructor are disjoint, and so the result for a decoded status is the
\* same whichever set is tested first.
C33_DisjointSets ==
    (pc \in {"returned", "dropped"} /\ last.cmd # NoCommand) =>
        /\ last.cmd.expected_ok_status \cap last.cmd.expected_error_status = {}
        /\ (ClientDecoded /\ last.res # "Panic")
              => SendRes = ErrorFirst(last.cmd, last.decoded.status)

\* bury was answered BURIED, a status that other commands list as a failure.
C33_Witness ==
    /\ pc = "returned"
    /\ last.op = "bury"
    /\ last.decoded.status = "Buried"
    /\ last.res = "Ok"

\* C34, as stated: every client operation on an open transport writes its
\* command exactly once, whatever the result, and reads exactly one reply
\* before it returns: when the connection held one well-formed reply of a
\* status the command expects and no socket call failed, nothing of that
\* reply is left unread for the next command to be written in front of.
C34_AsStated ==
    (pc = "returned" /\ last.op \in ClientOps /\ last.connected) =>
        /\ last.sent = <<build(last.cmd)>>
        /\ (last.io = "ok" /\ WellFormedReply /\ ReplyStatus \in (last.ok \cup last.err))
              => inbuf = <<>>

\* The part of C34 that holds: the command is written exactly once and never
\* again, whatever the result of the operation, and at most the one reply is
\* taken off the connection.
C34_WrittenOnce ==
    (pc = "returned" /\ last.op \in ClientOps /\ last.connected) =>
        /\ last.sent = <<build(last.cmd)>>
        /\ (last.io = "ok" /\ WellFormedReply) =>
              \E n \in 0..Len(last.avail) : inbuf = SubSeq(last.avail, n + 1, Len(last.avail))

\* The number of quit commands among the messages written.
RECURSIVE QuitCount(_)
QuitCount(msgs) ==
    IF msgs = <<>> THEN 0
    ELSE (IF Head(msgs) = <<"quit", "CR", "LF">> THEN 1 ELSE 0) + QuitCount(Tail(msgs))

\* C35, as stated: on one established connection quit is written at most
\* once and nothing is written after it; a reconnect that has written quit
\* and whose connect step then fails ends without another write to the old
\* connection.  (Only close writes quit, only reconnect and drop call close,
\* and both end the use of the connection they write to.)
C35_AsStated ==
    (pc \in {"returned", "dropped"} /\ last.connected) =>
        /\ QuitCount(last.sent) <= 1
        /\ \A i \in 1..Len(last.sent) :
              (last.sent[i] = <<"quit", "CR", "LF">>) => i = Len(last.sent)

\* The part of C35 that holds: drop, and a reconnect whose connect step
\* succeeds, write quit once and nothing else.
C35_QuitOnce ==
    (/\ pc \in {"returned", "dropped"}
     /\ last.connected
     /\ last.op = "drop" \/ (last.op = "reconnect" /\ last.res = "Ok"))
        => last.sent = << <<"quit", "CR", "LF">> >>

\* After an operation other than connect and reconnect the transport is
\* open exactly when it was before, whatever the result, and a client
\* operation on an open transport has written its command to it.
C36_StillOpen ==
    (pc = "returned" /\ last.op \notin {"none", "connect", "reconnect"}) =>
        /\ (stream = "Open") <=> last.connected
        /\ (last.op \in ClientOps /\ last.connected) => last.sent = <<build(last.cmd)>>

\* C36: no operation other than connect and reconnect changes whether the
\* transport is open; after a failure of any kind, UnexpectedResponse after
\* a framing violation included, the transport is still held and the next
\* operation is written to it.
C36_TransportKept ==
    /\ []C36_StillOpen
    /\ [][(stream' # stream) => last'.op \in {"connect", "reconnect"}]_vars

\* An operation failed with UnexpectedResponse on a reply that left bytes
\* unread, and the transport is still open.
C36_Witness ==
    /\ pc = "returned"
    /\ last.op \in ClientOps
    /\ last.connected
    /\ last.res = "UnexpectedResponse"
    /\ inbuf # <<>>
    /\ stream = "Open"

\* The operations of a Job, by the name the outcome records.
JobOps ==
    {"Job.delete", "Job.release", "Job.release_default", "Job.bury",
     "Job.bury_default", "Job.touch", "Job.kick", "Job.stats"}

\* C37: in every step of a Job operation, whatever the server replies, the
\* Job stays the same Job with the same id and the same body, and its
\* reserved flag does not go from false to true.
C37_FlagMonotone ==
    [][(last'.op \in JobOps) =>
          /\ job.live /\ job'.live
          /\ job'.id = job.id
          /\ job'.body = job.body
          /\ job'.reserved => job.reserved]_vars

\* A reserved Job with a body was released: the flag went from true to
\* false, id and body are what they were.
C37_Witness ==
    /\ pc = "returned"
    /\ last.op = "Job.release"
    /\ last.pre.reserved
    /\ last.pre.body = <<"a", "b">>
    /\ last.res = "Ok"
    /\ ~job.reserved
    /\ job.id = last.pre.id
    /\ job.body = <<"a", "b">>

\* delete on a Job that is not reserved succeeded and left the flag false.
C37_WitnessPeeked ==
    /\ pc = "returned"
    /\ last.op = "Job.delete"
    /\ ~last.pre.reserved
    /\ last.res = "Ok"
    /\ ~job.reserved

\* C38: when Job.delete, release, bury or touch returns an error, be it
\* CommandFailed, UnexpectedResponse or ConnectionError, the Job's reserved
\* flag is what it was before the call; a successful touch of a reserved Job
\* leaves it reserved.
C38_FlagKeptOnError ==
    (pc = "returned" /\ last.op \in {"Job.delete", "Job.release", "Job.bury", "Job.touch"}) =>
        /\ (last.res \in {"CommandFailed", "UnexpectedResponse", "ConnectionError"})
              => job = last.pre
        /\ (last.op = "Job.touch" /\ last.res = "Ok" /\ last.pre.reserved)
              => job.reserved

\* delete of a reserved Job answered NOT_FOUND: CommandFailed, and the Job is
\* still reserved.
C38_Witness ==
    /\ pc = "returned"
    /\ last.op = "Job.delete"
    /\ last.pre.reserved
    /\ last.res = "CommandFailed"
    /\ last.detail = "NotFound"
    /\ job.reserved

\* touch of a reserved Job answered TOUCHED.
C38_WitnessTouch ==
    /\ pc = "returned"
    /\ last.op = "Job.touch"
    /\ last.pre.reserved
    /\ last.decoded.status = "Touched"
    /\ last.res = "Ok"
    /\ job.reserved

\* bury of a reserved Job ended in ConnectionError.
C38_WitnessConnection ==
    /\ pc = "returned"
    /\ last.op = "Job.bury"
    /\ last.pre.reserved
    /\ last.res = "ConnectionError"
    /\ job.reserved

\* C39, as stated: the default priority that put_default, release_default
\* and bury_default of the client write is 2 to the power 31, 2147483648.
C39_AsStated ==
    (pc = "returned" /\ last.connected
        /\ last.op \in {"put_default", "release_default", "bury_default"}) =>
        /\ to_string(DEFAULT_JOB_PRIORITY)
              = <<"2", "1", "4", "7", "4", "8", "3", "6", "4", "8">>
        /\ \E i \in 1..Len(last.cmd.args) :
              last.cmd.args[i] = <<"2", "1", "4", "7", "4", "8", "3", "6", "4", "8">>

\* What the code writes: the value of the expression `2 ^ 31`, in which ^ is
\* the exclusive or of Rust: 29.
C39_XorValue ==
    (pc = "returned" /\ last.connected
        /\ last.op \in {"put_default", "release_default", "bury_default"}) =>
        /\ DEFAULT_JOB_PRIORITY = 29
        /\ \E i \in 1..Len(last.cmd.args) : last.cmd.args[i] = <<"2", "9">>

====
